---- MODULE Spec2Model ----
(***************************************************************************)
(* CSR<SpMVInd, SpMVVal> of src/main/cpp/CSR.hpp as a state machine over   *)
(* an explicit heap: CSR objects, SparseMatrixMetadata blocks and array    *)
(* buffers, with pointers into buffers as (buffer, offset) pairs.          *)
(*                                                                         *)
(* An `unsigned int` (and SpMVInd, instantiated as unsigned int) is held   *)
(* as the 32-bit two's-complement integer with the same bits: 0..2^31-1    *)
(* stand for themselves and -1 stands for 4294967295.  Unsigned + - * are  *)
(* then the integer + - * (nothing in the bounded model leaves 32 bits);   *)
(* unsigned < and / are ULess and UDiv below.                              *)
(***************************************************************************)
EXTENDS Integers, Sequences, FiniteSets, TLC

VARIABLES objs, metas, bufs, handles, last, crashed, nwrites, nviews

vars == <<objs, metas, bufs, handles, last, crashed, nwrites, nviews>>

----------------------------------------------------------------------------
(* Bounds of the model                                                     *)

\* eye and dense are built for dimensions 0..MaxDim
MaxDim == 3
\* rowPartitionedView is called with at most MaxParts partitions
MaxParts == MaxDim
\* CSR objects per run: a matrix and the children of one full partitioning
MaxObjs == MaxDim + 1
\* eye and dense are built for dimensions 0..MaxAliasDim where values are
\* written
MaxAliasDim == 2
\* calls of rowPartitionedView per run
MaxViews == 1
\* writes through getNZData() per run
MaxWrites == 1
\* calcRowPartitionBoundaries is swept over 0..MaxRows rows and
\* 1..MaxCalcParts partitions
MaxRows == 12
MaxCalcParts == 8

----------------------------------------------------------------------------
(* Template instantiation and unsigned arithmetic                          *)

\* sizeof(SpMVInd), sizeof(SpMVVal) for CSR<unsigned int, float>
IndBytes == 4
ValBytes == 4

IntMax == 2147483647

\* a / b on unsigned int, b > 0 below 2^31
UDiv(a, b) ==
  IF a >= 0 THEN a \div b
  ELSE IF b = 1 THEN a
  ELSE LET x == (a + IntMax) + 1
       IN  (x \div b) + (IntMax \div b) + (((x % b) + (IntMax % b) + 1) \div b)

\* values an out-of-bounds, dangling, null or uninitialized read may yield
GarbageVals == {0, 4}

----------------------------------------------------------------------------
(* The heap                                                                *)

NullPtr == [buf |-> 0, off |-> 0]
NullMeta == 0

\* p + n
PtrAdd(p, n) == [buf |-> p.buf, off |-> p.off + n]

BufLive(b) == b \in 1..Len(bufs) /\ bufs[b].releases = 0

InBounds(p, i) ==
  /\ BufLive(p.buf)
  /\ p.off + i >= 0
  /\ p.off + i < Len(bufs[p.buf].data)

\* the values the read p[i] may yield
ReadSet(p, i) ==
  IF InBounds(p, i) THEN {bufs[p.buf].data[p.off + i + 1]} ELSE GarbageVals

\* p[i] where the read is defined
Deref(p, i) == bufs[p.buf].data[p.off + i + 1]

NewBuf(data) == [data |-> data, releases |-> 0]

\* delete [] p
ReleaseBuf(bs, p) ==
  IF p.buf = 0 THEN bs
  ELSE [bs EXCEPT ![p.buf].releases = @ + 1]

\* delete m
ReleaseMeta(ms, m) ==
  IF m = NullMeta THEN ms
  ELSE [ms EXCEPT ![m].releases = @ + 1]

\* CSR(): the state the default constructor leaves
NewCSR ==
  [alive |-> TRUE,
   m_needsDealloc |-> FALSE,
   m_metadata |-> NullMeta,
   m_indPtrs |-> NullPtr,
   m_inds |-> NullPtr,
   m_nzData |-> NullPtr,
   m_name |-> "<not initialized>"]

\* SparseMatrixMetadata
Metadata(rows, cols, nz, startingRow, startingCol, bytesPerInd, bytesPerVal) ==
  [rows |-> rows, cols |-> cols, nz |-> nz,
   startingRow |-> startingRow, startingCol |-> startingCol,
   bytesPerInd |-> bytesPerInd, bytesPerVal |-> bytesPerVal,
   releases |-> 0]

NoBnds == << >>

\* the last call that returned something, and what it returned
Last(op, outcome, obj, arg, bnds, children) ==
  [op |-> op, outcome |-> outcome, obj |-> obj, arg |-> arg,
   bnds |-> bnds, children |-> children]

Init ==
  /\ objs = << >>
  /\ metas = << >>
  /\ bufs = << >>
  /\ handles = {}
  /\ last = Last("none", "ok", 0, 0, NoBnds, << >>)
  /\ crashed = FALSE
  /\ nwrites = 0
  /\ nviews = 0

----------------------------------------------------------------------------
(* eye and dense                                                           *)

\* the arrays eye(dim) fills
EyeIndPtrs(dim) == [i \in 1..(dim + 1) |-> i - 1]
EyeInds(dim) == [i \in 1..dim |-> i - 1]
EyeNzData(dim) == [i \in 1..dim |-> 1]

eye(dim) ==
  /\ ~crashed
  /\ last.op = "none"
  /\ \E gi \in GarbageVals, gv \in GarbageVals :
       LET o == Len(objs) + 1
           m == Len(metas) + 1
           b == Len(bufs)
           ret == [NewCSR EXCEPT
                     !.m_metadata = m,
                     !.m_indPtrs = [buf |-> b + 1, off |-> 0],
                     !.m_inds = [buf |-> b + 2, off |-> 0],
                     !.m_nzData = [buf |-> b + 3, off |-> 0],
                     !.m_name = "eye",
                     !.m_needsDealloc = TRUE]
       IN  /\ objs' = Append(objs, ret)
           /\ metas' = Append(metas, Metadata(dim, dim, dim, 0, 0, gi, gv))
           /\ bufs' = bufs \o <<NewBuf(EyeIndPtrs(dim)), NewBuf(EyeInds(dim)),
                                NewBuf(EyeNzData(dim))>>
           /\ handles' = handles \cup {o}
           /\ last' = Last("eye", "ok", o, dim, NoBnds, << >>)
  /\ UNCHANGED <<crashed, nwrites, nviews>>

\* dense with the column index taken modulo dim + 1
DenseInds_OffByOne(dim) == [i \in 1..(dim * dim) |-> (i - 1) % (dim + 1)]

\* dense with the values counted from 0
DenseNzData_ZeroBased(dim) == [i \in 1..(dim * dim) |-> i - 1]

\* the arrays dense(dim) fills
DenseIndPtrs(dim) == [i \in 1..(dim + 1) |-> (i - 1) * dim]
DenseInds(dim) == [i \in 1..(dim * dim) |-> (i - 1) % dim]
DenseNzData(dim) == [i \in 1..(dim * dim) |-> i]

dense(dim) ==
  /\ ~crashed
  /\ last.op = "none"
  /\ \E gi \in GarbageVals, gv \in GarbageVals :
       LET o == Len(objs) + 1
           m == Len(metas) + 1
           b == Len(bufs)
           ret == [NewCSR EXCEPT
                     !.m_metadata = m,
                     !.m_indPtrs = [buf |-> b + 1, off |-> 0],
                     !.m_inds = [buf |-> b + 2, off |-> 0],
                     !.m_nzData = [buf |-> b + 3, off |-> 0],
                     !.m_name = "dense",
                     !.m_needsDealloc = TRUE]
       IN  /\ objs' = Append(objs, ret)
           /\ metas' = Append(metas, Metadata(dim, dim, dim * dim, 0, 0, gi, gv))
           /\ bufs' = bufs \o <<NewBuf(DenseIndPtrs(dim)), NewBuf(DenseInds(dim)),
                                NewBuf(DenseNzData(dim))>>
           /\ handles' = handles \cup {o}
           /\ last' = Last("dense", "ok", o, dim, NoBnds, << >>)
  /\ UNCHANGED <<crashed, nwrites, nviews>>

----------------------------------------------------------------------------
(* load                                                                    *)

\* a null pointer from the store, and a fetched buffer
Absent == [present |-> FALSE, data |-> << >>]
Fetched(data) == [present |-> TRUE, data |-> data]

\* the name the model loads
StoredName == "m"

\* a 2 x 3 matrix with rows {0, 2} and {1}
SampleMatrix ==
  [rows |-> 2, cols |-> 3,
   indptr |-> <<0, 2, 3>>, inds |-> <<0, 2, 1>>, nzdata |-> <<5, 6, 7>>]

\* a rows x rows matrix without entries
ZeroMatrix(rows) ==
  [rows |-> rows, cols |-> rows,
   indptr |-> [i \in 1..(rows + 1) |-> 0], inds |-> << >>, nzdata |-> << >>]

\* the stores load is run against: each component of the sample matrix
\* present or absent, the recorded widths equal to the instantiation's or not
Stores ==
  [hasMeta : BOOLEAN, hasIndptr : BOOLEAN, hasInds : BOOLEAN, hasNzdata : BOOLEAN,
   bytesPerInd : {IndBytes, 2 * IndBytes},
   bytesPerVal : {ValBytes, 2 * ValBytes},
   matrix : {SampleMatrix}]

\* a store that holds every component of matrix M in the instantiation's widths
CompleteStore(M) ==
  [hasMeta |-> TRUE, hasIndptr |-> TRUE, hasInds |-> TRUE, hasNzdata |-> TRUE,
   bytesPerInd |-> IndBytes, bytesPerVal |-> ValBytes, matrix |-> M]

StoredMeta(st) ==
  Metadata(st.matrix.rows, st.matrix.cols, Len(st.matrix.inds), 0, 0,
           st.bytesPerInd, st.bytesPerVal)

\* readMatrixData(name, component): the buffer, or Absent for a null pointer
readMatrixData(st, component) ==
  CASE component = "meta" -> IF st.hasMeta THEN Fetched(StoredMeta(st)) ELSE Absent
    [] component = "indptr" -> IF st.hasIndptr THEN Fetched(st.matrix.indptr) ELSE Absent
    [] component = "inds" -> IF st.hasInds THEN Fetched(st.matrix.inds) ELSE Absent
    [] component = "nzdata" -> IF st.hasNzdata THEN Fetched(st.matrix.nzdata) ELSE Absent

\* the two messages of lines 59 and 62, and the three of lines 67, 69 and 79
TypeMismatchError == "TypeMismatchError"
FormatError == "FormatError"

\* the index-width check waived by genNZData like the value-width check
IndWidthMismatch_Waived(bytesPerInd, genNZData) ==
  (bytesPerInd # IndBytes) /\ ~genNZData

\* first check of load: the index width
IndWidthMismatch(bytesPerInd, genNZData) == bytesPerInd # IndBytes

\* second check of load: the value width
ValWidthMismatch(bytesPerVal, genNZData) == (bytesPerVal # ValBytes) /\ ~genNZData

\* for(i = 0; i < nnz; i++) m_nzData[i] = i + 1
GenNZData(nnz) == [i \in 1..nnz |-> i]

\* load from the fetch of "meta" on: md is the fetched block (NullMeta when
\* the fetch gave none), bpi, bpv, nnz what md->bytesPerInd, md->bytesPerVal
\* and md->nz read.  Gives the heap after the call, what the caller gets and
\* how the call ended.
LoadFrom(st, genNZData, ms, md, bpi, bpv, nnz) ==
  LET o == Len(objs) + 1
      b == Len(bufs)
      indptr == readMatrixData(st, "indptr")
      inds == readMatrixData(st, "inds")
      nzdata == readMatrixData(st, "nzdata")
      ret0 == [NewCSR EXCEPT !.m_metadata = md]
      ret1 == [ret0 EXCEPT !.m_indPtrs = [buf |-> b + 1, off |-> 0]]
      ret2 == [ret1 EXCEPT !.m_inds = [buf |-> b + 2, off |-> 0]]
      ret3 == [ret2 EXCEPT !.m_nzData = [buf |-> b + 3, off |-> 0]]
      ret4 == [ret3 EXCEPT !.m_name = StoredName, !.m_needsDealloc = TRUE]
      out(outcome, os, bs, h) ==
        [outcome |-> outcome, objs |-> os, metas |-> ms, bufs |-> bs, ret |-> h]
  IN  IF IndWidthMismatch(bpi, genNZData)
        THEN out(TypeMismatchError, objs, bufs, 0)
      ELSE IF ValWidthMismatch(bpv, genNZData)
        THEN out(TypeMismatchError, objs, bufs, 0)
      ELSE IF ~indptr.present
        THEN out(FormatError, Append(objs, ret0), bufs, 0)
      ELSE IF ~inds.present
        THEN out(FormatError, Append(objs, ret1), Append(bufs, NewBuf(indptr.data)), 0)
      ELSE IF genNZData
        THEN out("ok", Append(objs, ret4),
                 bufs \o <<NewBuf(indptr.data), NewBuf(inds.data), NewBuf(GenNZData(nnz))>>, o)
      ELSE IF ~nzdata.present
        THEN out(FormatError, Append(objs, ret2),
                 bufs \o <<NewBuf(indptr.data), NewBuf(inds.data)>>, 0)
      ELSE out("ok", Append(objs, ret4),
               bufs \o <<NewBuf(indptr.data), NewBuf(inds.data), NewBuf(nzdata.data)>>, o)

\* the ways load(name, genNZData) can end against store st.  With "meta"
\* absent md is null and md->bytesPerInd is undefined: the process faults, or
\* the reads yield whatever is there and load carries on with them.
LoadOutcomes(st, genNZData) ==
  LET md == readMatrixData(st, "meta")
  IN  IF md.present
        THEN {LoadFrom(st, genNZData, Append(metas, md.data), Len(metas) + 1,
                       md.data.bytesPerInd, md.data.bytesPerVal, md.data.nz)}
      ELSE {[outcome |-> "crash", objs |-> objs, metas |-> metas,
             bufs |-> bufs, ret |-> 0]}
           \cup {LoadFrom(st, genNZData, metas, NullMeta, gi, gv, gn) :
                   gi \in GarbageVals, gv \in GarbageVals, gn \in GarbageVals}

load(st, genNZData) ==
  /\ ~crashed
  /\ last.op = "none"
  /\ \E r \in LoadOutcomes(st, genNZData) :
       /\ objs' = r.objs
       /\ metas' = r.metas
       /\ bufs' = r.bufs
       /\ handles' = IF r.ret = 0 THEN handles ELSE handles \cup {r.ret}
       /\ crashed' = (r.outcome = "crash")
       /\ last' = Last("load", r.outcome, r.ret, [st |-> st, genNZData |-> genNZData],
                       NoBnds, << >>)
  /\ UNCHANGED <<nwrites, nviews>>

----------------------------------------------------------------------------
(* calcRowPartitionBoundaries                                              *)

\* the boundaries with the chunk size rows / numPartitions
calcRowPartitionBoundaries_Floor(rows, numPartitions) ==
  LET divSize == UDiv(rows, numPartitions)
  IN  [i \in 1..numPartitions |-> divSize * (i - 1)] \o <<rows>>

\* the vector calcRowPartitionBoundaries(numPartitions) returns on a matrix
\* of the given number of rows
calcRowPartitionBoundaries(rows, numPartitions) ==
  LET divSize == UDiv(rows + numPartitions, numPartitions)
  IN  [i \in 1..numPartitions |-> divSize * (i - 1)] \o <<rows>>

Meta(o) == metas[objs[o].m_metadata]

\* the matrices the caller partitions: those it holds, with metadata and a
\* row count within the model's dimensions
Callable ==
  {o \in handles : objs[o].m_metadata # NullMeta /\ Meta(o).rows \in 0..MaxRows}

CalcRowPartitionBoundaries(o, numPartitions) ==
  /\ ~crashed
  /\ o \in Callable
  /\ last' = Last("calc", "ok", o, numPartitions,
                  calcRowPartitionBoundaries(Meta(o).rows, numPartitions), << >>)
  /\ UNCHANGED <<objs, metas, bufs, handles, crashed, nwrites, nviews>>

----------------------------------------------------------------------------
(* rowPartitionedView                                                      *)

Digits == <<"0", "1", "2", "3", "4", "5", "6", "7", "8", "9">>

\* the do-while of itoa: the digits of n, lowest first
RECURSIVE DigitsReversed(_)
DigitsReversed(n) ==
  <<Digits[(n % 10) + 1]>> \o (IF n \div 10 > 0 THEN DigitsReversed(n \div 10) ELSE << >>)

\* reverse(s)
reverse(s) == [i \in 1..Len(s) |-> s[Len(s) + 1 - i]]

RECURSIVE Concat(_)
Concat(s) == IF s = << >> THEN "" ELSE Head(s) \o Concat(Tail(s))

\* itoa(n, s) for n >= 0
itoa(n) == Concat(reverse(DigitsReversed(n)))

\* the child's metadata with rows set to the end boundary
ChildMeta_EndRow(md, boundaries, ip, i) ==
  Metadata(boundaries[i + 2],
           md.cols,
           ip[i + 2] - ip[i + 1],
           boundaries[i + 1],
           0,
           md.bytesPerInd,
           md.bytesPerVal)

\* the child's values pointer left at the parent's
ChildNzData_Untouched(P, boundaries, ip, i) == P.m_nzData

\* child i (from 0) of rowPartitionedView(boundaries) on matrix P with
\* metadata md, where ip[j] is what m_indPtrs[boundaries[j]] read
ChildMeta(md, boundaries, ip, i) ==
  Metadata(boundaries[i + 2] - boundaries[i + 1],
           md.cols,
           ip[i + 2] - ip[i + 1],
           boundaries[i + 1],
           0,
           md.bytesPerInd,
           md.bytesPerVal)

ChildIndPtrs(P, boundaries, ip, i) == PtrAdd(P.m_indPtrs, boundaries[i + 1])
ChildInds(P, boundaries, ip, i) == PtrAdd(P.m_inds, ip[i + 1])
ChildNzData(P, boundaries, ip, i) == PtrAdd(P.m_nzData, ip[i + 1])

ChildObj(P, boundaries, ip, i, m) ==
  [NewCSR EXCEPT
     !.m_metadata = m,
     !.m_indPtrs = ChildIndPtrs(P, boundaries, ip, i),
     !.m_inds = ChildInds(P, boundaries, ip, i),
     !.m_nzData = ChildNzData(P, boundaries, ip, i),
     !.m_name = P.m_name \o "-p" \o itoa(i)]

\* the non-decreasing sequences of n values in lo..hi
RECURSIVE NonDecreasing(_, _, _)
NonDecreasing(n, lo, hi) ==
  IF n = 0 THEN {<< >>}
  ELSE UNION {{<<v>> \o t : t \in NonDecreasing(n - 1, v, hi)} : v \in lo..hi}

\* non-decreasing boundaries from 0 to rows, for 1..MaxParts partitions
ValidBoundaries(rows) ==
  IF rows \notin 0..MaxDim THEN {}
  ELSE UNION {{<<0>> \o mid \o <<rows>> : mid \in NonDecreasing(k - 1, 0, rows)} :
                k \in 1..MaxParts}

\* the matrices rowPartitionedView is still called on in this run
Partitionable == IF nviews < MaxViews THEN Callable ELSE {}

\* the boundaries the caller passes: valid ones, and those of
\* calcRowPartitionBoundaries
BoundaryArgs(rows) ==
  ValidBoundaries(rows)
    \cup {calcRowPartitionBoundaries(rows, n) : n \in 1..MaxParts}

\* the sequences that take their j-th value from sets[j]
RECURSIVE Choices(_)
Choices(sets) ==
  IF sets = << >> THEN {<< >>}
  ELSE {<<h>> \o t : h \in Head(sets), t \in Choices(Tail(sets))}

rowPartitionedView(o, boundaries) ==
  /\ ~crashed
  /\ o \in Callable
  /\ nviews < MaxViews
  /\ LET P == objs[o]
         md == Meta(o)
         numPartitions == Len(boundaries) - 1
         reads == [j \in 1..Len(boundaries) |-> ReadSet(P.m_indPtrs, boundaries[j])]
         first == Len(objs) + 1
     IN  /\ Len(objs) + numPartitions <= MaxObjs
         /\ \E ip \in Choices(reads) :
              /\ objs' = objs \o [i \in 1..numPartitions |->
                                    ChildObj(P, boundaries, ip, i - 1, Len(metas) + i)]
              /\ metas' = metas \o [i \in 1..numPartitions |->
                                      ChildMeta(md, boundaries, ip, i - 1)]
              /\ handles' = handles \cup (first..(first + numPartitions - 1))
              /\ last' = Last("view", "ok", o, numPartitions, boundaries,
                              [i \in 1..numPartitions |-> first + i - 1])
  /\ nviews' = nviews + 1
  /\ UNCHANGED <<bufs, crashed, nwrites>>

----------------------------------------------------------------------------
(* writes through getNZData(), and the destructor                          *)

\* the value the caller stores
WriteVal == 0

\* getNZData()
getNZData(o) == objs[o].m_nzData

\* getNZData()[j] = WriteVal by the caller, on a matrix that owns its arrays
WriteNZ(o, j) ==
  /\ ~crashed
  /\ o \in handles
  /\ objs[o].m_needsDealloc
  /\ nwrites < MaxWrites
  /\ InBounds(getNZData(o), j)
  /\ LET p == getNZData(o)
     IN  bufs' = [bufs EXCEPT ![p.buf].data[p.off + j + 1] = WriteVal]
  /\ nwrites' = nwrites + 1
  /\ UNCHANGED <<objs, metas, handles, last, crashed, nviews>>

\* ~CSR(): what the destructor releases
DestructorReleases(C) == C.m_needsDealloc

Destroy(o) ==
  /\ ~crashed
  /\ o \in handles
  /\ LET C == objs[o]
     IN  /\ objs' = [objs EXCEPT ![o].alive = FALSE]
         /\ IF DestructorReleases(C)
              THEN /\ metas' = ReleaseMeta(metas, C.m_metadata)
                   /\ bufs' = ReleaseBuf(ReleaseBuf(ReleaseBuf(bufs, C.m_indPtrs),
                                                    C.m_inds), C.m_nzData)
              ELSE UNCHANGED <<metas, bufs>>
  /\ handles' = handles \ {o}
  /\ UNCHANGED <<last, crashed, nwrites, nviews>>

----------------------------------------------------------------------------

\* one matrix is built and partitioned, and the matrices are destroyed
Next ==
  \/ \E dim \in 0..MaxDim : eye(dim)
  \/ \E dim \in 0..MaxDim : dense(dim)
  \/ \E genNZData \in BOOLEAN : load(CompleteStore(SampleMatrix), genNZData)
  \/ \E o \in Partitionable : \E b \in BoundaryArgs(Meta(o).rows) : rowPartitionedView(o, b)
  \/ \E o \in handles : Destroy(o)

Spec == Init /\ [][Next]_vars

\* the matrices written to: the partitioned ones
Writable == IF nviews > 0 THEN handles ELSE {}

\* one matrix is built and partitioned, and then its values are written to
NextAlias ==
  \/ \E dim \in 0..MaxAliasDim : eye(dim)
  \/ \E dim \in 0..MaxAliasDim : dense(dim)
  \/ \E genNZData \in BOOLEAN : load(CompleteStore(SampleMatrix), genNZData)
  \/ \E o \in Partitionable : \E b \in BoundaryArgs(Meta(o).rows) : rowPartitionedView(o, b)
  \/ \E o \in Writable, j \in 0..(MaxDim * MaxDim) : WriteNZ(o, j)

SpecAlias == Init /\ [][NextAlias]_vars

\* load against every store, and the destructor
NextLoad ==
  \/ \E st \in Stores, genNZData \in BOOLEAN : load(st, genNZData)
  \/ \E o \in handles : Destroy(o)

SpecLoad == Init /\ [][NextLoad]_vars

\* calcRowPartitionBoundaries on matrices of 0..MaxRows rows
NextCalc ==
  \/ \E dim \in 0..MaxDim : eye(dim)
  \/ \E dim \in 0..MaxDim : dense(dim)
  \/ \E rows \in 0..MaxRows : load(CompleteStore(ZeroMatrix(rows)), FALSE)
  \/ \E o \in handles, n \in 1..MaxCalcParts : CalcRowPartitionBoundaries(o, n)

SpecCalc == Init /\ [][NextCalc]_vars

----------------------------------------------------------------------------
(* Vocabulary of the properties                                            *)

\* the last call was rowPartitionedView; its parent, boundaries and children
Viewed == last.op = "view"
Parent == objs[last.obj]
ParentMeta == metas[Parent.m_metadata]
NumChildren == Len(last.children)
Child(i) == objs[last.children[i + 1]]
ChildMd(i) == metas[Child(i).m_metadata]

\* boundaries of length k+1, non-decreasing, first = 0, last = rows
IsValidBoundaries(b, rows) ==
  /\ Len(b) >= 2
  /\ b[1] = 0
  /\ b[Len(b)] = rows
  /\ \A j \in 1..(Len(b) - 1) : b[j] <= b[j + 1]

\* the three arrays of matrix C are allocated
ArraysLive(C) ==
  /\ BufLive(C.m_indPtrs.buf)
  /\ BufLive(C.m_inds.buf)
  /\ BufLive(C.m_nzData.buf)

RECURSIVE SumNz(_)
SumNz(n) == IF n = 0 THEN 0 ELSE ChildMd(n - 1).nz + SumNz(n - 1)

\* the cells p[from], ..., p[to - 1]
Cells(p, from, to) == [k \in 1..(to - from) |-> Deref(p, from + k - 1)]

----------------------------------------------------------------------------
(* C1                                                                      *)

\* the children's row ranges cover [0, rows) exactly once, and their nz add
\* up to the parent's
CoversExactlyOnce ==
  /\ \A i \in 0..(NumChildren - 1) :
       /\ ChildMd(i).rows >= 0
       /\ ChildMd(i).startingRow + ChildMd(i).rows <= ParentMeta.rows
  /\ \A r \in 0..(ParentMeta.rows - 1) :
       Cardinality({i \in 0..(NumChildren - 1) :
                      /\ ChildMd(i).startingRow <= r
                      /\ r < ChildMd(i).startingRow + ChildMd(i).rows}) = 1
  /\ SumNz(NumChildren) = ParentMeta.nz

\* C1: when rowPartitionedView is given the boundaries that
\* calcRowPartitionBoundaries(numPartitions) returns, for rows >= 1 and
\* numPartitions in [1, rows], the children's row ranges cover [0, rows)
\* exactly once and the children's nz add up to the parent's nz.
C1_PartitionCoverage ==
  (/\ Viewed
   /\ ParentMeta.rows >= 1
   /\ \E n \in 1..ParentMeta.rows :
        last.bnds = calcRowPartitionBoundaries(ParentMeta.rows, n))
  => CoversExactlyOnce

----------------------------------------------------------------------------
(* C2                                                                      *)

\* the data-model invariants of matrix C with metadata md, the index
\* pointers bounded by base + nz
InvariantsWithBase(C, md, base) ==
  /\ \A r \in 0..md.rows : InBounds(C.m_indPtrs, r)
  /\ \A r \in 0..(md.rows - 1) :
       /\ base <= Deref(C.m_indPtrs, r)
       /\ Deref(C.m_indPtrs, r) <= Deref(C.m_indPtrs, r + 1)
       /\ Deref(C.m_indPtrs, r + 1) <= base + md.nz
  /\ md.nz = Deref(C.m_indPtrs, md.rows) - Deref(C.m_indPtrs, 0)
  /\ \A i \in 0..(md.nz - 1) :
       /\ InBounds(C.m_inds, i)
       /\ 0 <= Deref(C.m_inds, i)
       /\ Deref(C.m_inds, i) < md.cols

\* the matrix eye or dense built, while it lives
BuiltRoots ==
  {o \in handles : objs[o].m_needsDealloc /\ objs[o].m_name \in {"eye", "dense"}}

\* the children of the last rowPartitionedView, when it was applied to a
\* living eye or dense matrix with valid boundaries
BuiltChildren ==
  IF /\ Viewed
     /\ last.obj \in BuiltRoots
     /\ IsValidBoundaries(last.bnds, ParentMeta.rows)
  THEN {last.children[i] : i \in 1..NumChildren}
  ELSE {}

----------------------------------------------------------------------------
(* C3, C4                                                                  *)

Loaded == last.op = "load"
LoadStore == last.arg.st
LoadGen == last.arg.genNZData
WidthsMatch ==
  /\ LoadStore.bytesPerInd = IndBytes
  /\ (LoadStore.bytesPerVal = ValBytes \/ LoadGen)

\* the store answered a fetch of load with absent
FetchedAbsent ==
  \/ ~LoadStore.hasMeta
  \/ /\ LoadStore.hasMeta
     /\ WidthsMatch
     /\ \/ ~LoadStore.hasIndptr
        \/ ~LoadStore.hasInds
        \/ (~LoadGen /\ ~LoadStore.hasNzdata)

NothingReturned == last.obj = 0 /\ handles = {}

\* C3: load fails with a FormatError and returns no matrix whenever the
\* store answers absent for meta, indptr, inds or (genNZData false) nzdata;
\* in particular for an absent meta.
C3_MissingComponentRejection ==
  (Loaded /\ FetchedAbsent) => (last.outcome = FormatError /\ NothingReturned)

\* C4: with the metadata fetched, a stored bytesPerInd other than
\* sizeof(SpMVInd) fails with TypeMismatchError whatever genNZData is; with
\* the index width matching, a stored bytesPerVal other than sizeof(SpMVVal)
\* fails with TypeMismatchError exactly when genNZData is false; a mismatch
\* returns no matrix.
C4_TypeMismatchRejection ==
  (Loaded /\ LoadStore.hasMeta) =>
    /\ (LoadStore.bytesPerInd # IndBytes) => last.outcome = TypeMismatchError
    /\ (LoadStore.bytesPerInd = IndBytes /\ LoadStore.bytesPerVal # ValBytes) =>
         ((last.outcome = TypeMismatchError) <=> ~LoadGen)
    /\ (last.outcome = TypeMismatchError) => NothingReturned

C4_Witness ==
  /\ Loaded
  /\ LoadStore.hasMeta
  /\ LoadGen
  /\ LoadStore.bytesPerInd # IndBytes
  /\ LoadStore.bytesPerVal # ValBytes
  /\ last.outcome = TypeMismatchError

----------------------------------------------------------------------------
(* C5, C9                                                                  *)

Calculated == last.op = "calc"

\* C5: on a matrix with rows = 0, calcRowPartitionBoundaries returns
\* boundaries that are all zero, for every numPartitions >= 1.
C5_ZeroRowBoundaries ==
  (Calculated /\ Meta(last.obj).rows = 0) =>
    \A j \in 1..Len(last.bnds) : last.bnds[j] = 0

\* what C9 says of the vector returned for (rows, n)
BoundaryFormula(b, rows, n) ==
  /\ Len(b) = n + 1
  /\ b[1] = 0
  /\ b[n + 1] = rows
  /\ \A i \in 0..(n - 1) : b[i + 1] = ((rows + n) \div n) * i

----------------------------------------------------------------------------
(* C6                                                                      *)

Destroyed == {o \in 1..Len(objs) : ~objs[o].alive}

ReleasedOnce(p) == p.buf # 0 /\ bufs[p.buf].releases = 1

\* C6: a destroyed owning matrix has its metadata and its three arrays
\* released exactly once; a destroyed view has released its own metadata and
\* none of the arrays it borrows; nothing is released twice.
C6_Ownership ==
  /\ \A o \in Destroyed :
       /\ metas[objs[o].m_metadata].releases = 1
       /\ objs[o].m_needsDealloc =>
            /\ ReleasedOnce(objs[o].m_indPtrs)
            /\ ReleasedOnce(objs[o].m_inds)
            /\ ReleasedOnce(objs[o].m_nzData)
  /\ \A o \in handles : objs[o].m_needsDealloc => ArraysLive(objs[o])
  /\ \A b \in 1..Len(bufs) : bufs[b].releases <= 1
  /\ \A m \in 1..Len(metas) : metas[m].releases <= 1

----------------------------------------------------------------------------
(* C7                                                                      *)

\* the last call was rowPartitionedView with valid boundaries, on a living
\* matrix whose rows+1 index pointers lie in a living array
ValidView ==
  /\ Viewed
  /\ IsValidBoundaries(last.bnds, ParentMeta.rows)
  /\ last.obj \in handles
  /\ InBounds(Parent.m_indPtrs, 0)
  /\ InBounds(Parent.m_indPtrs, ParentMeta.rows)

\* C7: for valid boundaries of length k+1 rowPartitionedView returns k
\* children, child i with rows = boundaries[i+1] - boundaries[i], the
\* parent's cols, nz = parent.indPtrs[boundaries[i+1]] -
\* parent.indPtrs[boundaries[i]], startingRow = boundaries[i], startingCol = 0
\* and the parent's bytesPerInd and bytesPerVal; a child of zero rows has
\* nz = 0; the call leaves the parent's metadata and the arrays as they were.
C7_ChildMetadata ==
  /\ [](ValidView =>
          /\ NumChildren = Len(last.bnds) - 1
          /\ \A i \in 0..(NumChildren - 1) :
               /\ ChildMd(i).rows = last.bnds[i + 2] - last.bnds[i + 1]
               /\ ChildMd(i).cols = ParentMeta.cols
               /\ ChildMd(i).nz = Deref(Parent.m_indPtrs, last.bnds[i + 2])
                                    - Deref(Parent.m_indPtrs, last.bnds[i + 1])
               /\ ChildMd(i).startingRow = last.bnds[i + 1]
               /\ ChildMd(i).startingCol = 0
               /\ ChildMd(i).bytesPerInd = ParentMeta.bytesPerInd
               /\ ChildMd(i).bytesPerVal = ParentMeta.bytesPerVal
               /\ (ChildMd(i).rows = 0) => (ChildMd(i).nz = 0))
  /\ [][(nviews' # nviews) =>
          /\ bufs' = bufs
          /\ objs'[last'.obj] = objs[last'.obj]
          /\ metas'[objs[last'.obj].m_metadata] = metas[objs[last'.obj].m_metadata]]_vars

C7_Witness ==
  /\ ValidView
  /\ NumChildren >= 2
  /\ ParentMeta.bytesPerInd # ParentMeta.bytesPerVal
  /\ \E i \in 0..(NumChildren - 1) : ChildMd(i).rows = 0
  /\ \E i \in 0..(NumChildren - 1) : ChildMd(i).startingRow > 0 /\ ChildMd(i).nz > 0

----------------------------------------------------------------------------
(* C8                                                                      *)

\* C8: dense(n) for n >= 1 has rows = cols = n and nnz = n*n,
\* indPtrs[i] = i*n for i in [0, n], and row r holds the columns 0..n-1 in
\* order with the values r*n+1 .. r*n+n.
C8_DenseCorrectness ==
  (last.op = "dense" /\ last.arg >= 1 /\ last.obj \in handles) =>
    LET n == last.arg
        D == objs[last.obj]
        md == Meta(last.obj)
    IN  /\ md.rows = n /\ md.cols = n /\ md.nz = n * n
        /\ Len(bufs[D.m_indPtrs.buf].data) = n + 1
        /\ \A i \in 0..n : Deref(D.m_indPtrs, i) = i * n
        /\ \A r \in 0..(n - 1) :
             /\ Cells(D.m_inds, Deref(D.m_indPtrs, r), Deref(D.m_indPtrs, r + 1))
                  = [c \in 1..n |-> c - 1]
             /\ Cells(D.m_nzData, Deref(D.m_indPtrs, r), Deref(D.m_indPtrs, r + 1))
                  = [c \in 1..n |-> r * n + c]

C8_Witness ==
  /\ last.op = "dense"
  /\ last.arg = MaxDim
  /\ last.obj \in handles
  /\ Deref(objs[last.obj].m_nzData, MaxDim * MaxDim - 1) = MaxDim * MaxDim

----------------------------------------------------------------------------
(* C10                                                                     *)

\* a valid view of a living matrix that owns its arrays
ValidOwnerView ==
  /\ ValidView
  /\ Parent.m_needsDealloc
  /\ ArraysLive(Parent)

\* the offset of child i's entries in the parent's inds and nzData
ChildBase(i) == Deref(Parent.m_indPtrs, last.bnds[i + 1])

\* C10: for valid boundaries, child.indPtrs[r] = parent.indPtrs[boundaries[i]
\* + r] for r in [0, child.rows]; child.inds[j] and child.nzData[j] are the
\* parent's cells at parent.indPtrs[boundaries[i]] + j for j in [0, child.nz);
\* child row r read as parent.inds[child.indPtrs[r] .. child.indPtrs[r+1]) is
\* parent row boundaries[i] + r; and what is written to a parent nzData cell
\* a child covers is read through the child.
C10_ZeroCopyView ==
  ValidOwnerView =>
    \A i \in 0..(NumChildren - 1) :
      /\ \A r \in 0..ChildMd(i).rows :
           /\ InBounds(Child(i).m_indPtrs, r)
           /\ Deref(Child(i).m_indPtrs, r) = Deref(Parent.m_indPtrs, last.bnds[i + 1] + r)
      /\ \A j \in 0..(ChildMd(i).nz - 1) :
           /\ PtrAdd(Child(i).m_inds, j) = PtrAdd(Parent.m_inds, ChildBase(i) + j)
           /\ PtrAdd(Child(i).m_nzData, j) = PtrAdd(Parent.m_nzData, ChildBase(i) + j)
           /\ Deref(Child(i).m_inds, j) = Deref(Parent.m_inds, ChildBase(i) + j)
           /\ Deref(Child(i).m_nzData, j) = Deref(Parent.m_nzData, ChildBase(i) + j)
      /\ \A r \in 0..(ChildMd(i).rows - 1) :
           Cells(Parent.m_inds, Deref(Child(i).m_indPtrs, r),
                 Deref(Child(i).m_indPtrs, r + 1))
             = Cells(Parent.m_inds, Deref(Parent.m_indPtrs, last.bnds[i + 1] + r),
                     Deref(Parent.m_indPtrs, last.bnds[i + 1] + r + 1))

\* a write to the parent after the view, read through a child past the first
C10_Witness ==
  /\ ValidOwnerView
  /\ nwrites > 0
  /\ \E i \in 1..(NumChildren - 1) : \E j \in 0..(ChildMd(i).nz - 1) :
       /\ ChildBase(i) > 0
       /\ Deref(Child(i).m_nzData, j) = WriteVal
       /\ Deref(Parent.m_nzData, ChildBase(i) + j) = WriteVal

====
